---- MODULE Spec2Model ----
(***************************************************************************)
(* Game-session orchestrator of the wordle game (game-session/src/lib.rs,  *)
(* game-session/io/src/lib.rs) as a state machine.                         *)
(*                                                                         *)
(* One action is one execution of an entry point (handle / handle_reply).  *)
(* An execution that panics leaves the program state untouched and emits   *)
(* nothing; an execution that ends in exec::wait() keeps its changes and   *)
(* parks the message in the waitlist; exec::wake(id) moves the parked      *)
(* message to the back of the message queue, where it is executed again    *)
(* from the top of handle() with the same msg::id() and msg::source().     *)
(***************************************************************************)
EXTENDS Integers, Sequences, FiniteSets, TLC

VARIABLES
    sessions,   \* GameSession.sessions: player -> SessionInfo, or NoSession
    queue,      \* program's message queue: woken messages, replies, due timeouts
    waitlist,   \* messages parked by exec::wait()
    wordle,     \* requests sent to the evaluation program and not yet answered,
                \* each with the id of the message that sent it (`by`, history)
    delayed,    \* CheckGameStatus messages scheduled by send_delayed, oldest first
    nextId,     \* per player: number of message ids handed out so far
    gameNo,     \* per player: number of games started so far (history)
    idCap,      \* per player: how many message ids the run may hand out
    delivered,  \* replies the transport has delivered and may deliver once more
    out,        \* what the last execution emitted
    last        \* the last execution: entry point, message, outcome

vars == <<sessions, queue, waitlist, wordle, delayed, nextId, gameNo, idCap,
          delivered, out, last>>

-----------------------------------------------------------------------------
(* Bounds of the model *)

\* message ids available to the player of the single-player specification
MaxIds == 8
\* message ids available to the players of the two-player specification
MaxIdsTwo == 5
MaxIdsOther == 2
\* message ids available to the player of the specification with fairness
MaxIdsLive == 6
\* message ids available to the player who sends one message at a time
MaxIdsSeq == 13
\* message ids available to the player of the specification with forged
\* timeout checks
MaxIdsForged == 6
\* message ids available to the player of the specification with replies
\* delivered twice
MaxIdsDup == 6

Users == {"u1", "u2"}

\* exec::program_id(): the orchestrator's own actor id
Program == "game_session"

-----------------------------------------------------------------------------
(* Program constants and data *)

TRIES_LIMIT == 5

\* MessageId::default()
ZeroId == <<"none", 0>>

\* Absence of a record in the sessions map
NoSession == [absent |-> TRUE]

StatusInit == [kind |-> "Init"]
StatusInProgress == [kind |-> "InProgress"]
StatusReplyReceived(ev) == [kind |-> "ReplyReceived", event |-> ev]
StatusGameOver(r) == [kind |-> "GameOver", result |-> r]

\* SessionInfo::default(), what get_or_create_session inserts
DefaultSession ==
    [session_id |-> ZeroId, original_msg_id |-> ZeroId,
     send_to_wordle_msg_id |-> ZeroId, tries |-> 0,
     session_status |-> StatusInit]

\* Guesses a player may submit, as sequences of characters.
W_horse == <<"h", "o", "r", "s", "e">>
W_symbol == <<"a", "b", "@", "c", "d">>
W_short == <<"a", "b", "c", "d">>
\* four characters, five bytes: the first one is a two-byte lowercase letter
W_twobyte == <<"e_acute", "a", "b", "c">>
Words == {W_horse, W_symbol, W_short, W_twobyte}

\* char::is_lowercase
LowercaseChars == {"a", "b", "c", "d", "e", "f", "h", "o", "r", "s", "e_acute"}
is_lowercase(c) == c \in LowercaseChars

\* bytes of the UTF-8 encoding of a character
Utf8Len(c) == IF c = "e_acute" THEN 2 ELSE 1

RECURSIVE StrLen(_)
\* str::len(): the length in bytes
StrLen(w) == IF w = <<>> THEN 0 ELSE Utf8Len(Head(w)) + StrLen(Tail(w))

\* GameSession::validate_word, TRUE for Ok(())
validate_word(w) ==
    /\ StrLen(w) = 5
    /\ \A i \in 1..Len(w) : is_lowercase(w[i])

\* Results the evaluation program may report for a guess
CheckResults ==
    { [correct_positions |-> <<0, 1, 2, 3, 4>>, contained_in_word |-> <<>>],
      [correct_positions |-> <<0, 2>>, contained_in_word |-> <<1>>] }

GameStarted(u) == [t |-> "GameStarted", user |-> u]
WordChecked(u, r) ==
    [t |-> "WordChecked", user |-> u,
     correct_positions |-> r.correct_positions,
     contained_in_word |-> r.contained_in_word]

\* WordleEvent::get_user
get_user(ev) == ev.user

\* WordleEvent::has_guessed
has_guessed(ev) ==
    IF ev.t = "WordChecked"
    THEN /\ Len(ev.correct_positions) = 5
         /\ \A i \in 1..Len(ev.correct_positions) : ev.correct_positions[i] < 5
    ELSE FALSE

\* impl From<&WordleEvent> for GameSessionEvent
ToGameSessionEvent(ev) ==
    IF ev.t = "GameStarted"
    THEN [t |-> "StartSuccess"]
    ELSE [t |-> "CheckWordResult",
          correct_positions |-> ev.correct_positions,
          contained_in_word |-> ev.contained_in_word,
          positions |-> ev.correct_positions,
          contains |-> ev.contained_in_word]

\* GameSessionEvent::game_over
game_over(status) == [t |-> "GameOver", status |-> status]

-----------------------------------------------------------------------------
(* SessionInfo *)

\* Variant of is_wait_reply_status that also holds once the game is over
is_wait_reply_status_OrOver(s) ==
    s.session_status.kind \in {"InProgress", "GameOver"}

is_wait_reply_status(s) == s.session_status.kind = "InProgress"
is_game_over(s) == s.session_status.kind = "GameOver"
is_init(s) == s.session_status.kind = "Init"
\* Variant of has_reply that never sees a cached reply
has_reply_Never(s) == FALSE

has_reply(s) == s.session_status.kind = "ReplyReceived"
can_start_new_game(s) == is_init(s) \/ is_game_over(s)

update_message_ids(s, original, send_to_wordle) ==
    [s EXCEPT !.original_msg_id = original,
              !.send_to_wordle_msg_id = send_to_wordle]

\* Variant of increment_tries that leaves the counter as it is
increment_tries_Stuck(s) == s

\* SessionInfo::increment_tries: the record after `self.tries += 1` (u8)
increment_tries(s) == [s EXCEPT !.tries = (s.tries + 1) % 256]

\* GameSession::get_or_create_session: the record the handler works on
get_or_create_session(u) ==
    IF sessions[u] = NoSession THEN DefaultSession ELSE sessions[u]

-----------------------------------------------------------------------------
(* Messages *)

ActStartGame == [type |-> "StartGame"]
ActCheckWord(w) == [type |-> "CheckWord", word |-> w]

Msg(id, u, act) == [id |-> id, source |-> u, action |-> act]

QWake(m) == [type |-> "wake", msg |-> m]
\* `by` and `copy` are history: the id of the message that sent the request
\* the reply answers, and whether this is the second delivery of the reply
QReply(rid, ev, by, copy) ==
    [type |-> "reply", reply_to |-> rid, event |-> ev, by |-> by, copy |-> copy]
\* `game` is history: the number of the game that scheduled the check
QTimeout(u, sid, g) ==
    [type |-> "timeout", user |-> u, session_id |-> sid, game |-> g]

\* the k-th message id yet to be handed out for player u
FreshId(u, k) == <<u, nextId[u] + k>>

\* ids that executions already in the queue may still need: a queued reply may
\* wake a message, and a woken message may send one more request
Reserve(u) ==
    Cardinality({ i \in 1..Len(queue) :
        \/ queue[i].type = "wake" /\ queue[i].msg.source = u
        \/ queue[i].type = "reply" /\ queue[i].event.user = u })

NoOut == {}

\* a step that is no execution of the program
EnvStep(op) ==
    [op |-> op, user |-> "none", id |-> ZeroId, source |-> "none",
     woken |-> FALSE, arg |-> "none", outcome |-> "env", pre |-> NoSession]

\* init(): no session yet; cap is the bound on the ids of each player
InitWith(cap) ==
    /\ sessions = [u \in Users |-> NoSession]
    /\ queue = <<>>
    /\ waitlist = {}
    /\ wordle = {}
    /\ delayed = <<>>
    /\ nextId = [u \in Users |-> 0]
    /\ gameNo = [u \in Users |-> 0]
    /\ idCap = cap
    /\ delivered = {}
    /\ out = NoOut
    /\ last = EnvStep("init")

Init == InitWith([u \in Users |-> IF u = "u1" THEN MaxIds ELSE 0])
InitTwo == InitWith([u \in Users |-> IF u = "u1" THEN MaxIdsTwo ELSE MaxIdsOther])
InitLive == InitWith([u \in Users |-> IF u = "u1" THEN MaxIdsLive ELSE 0])
InitSeq == InitWith([u \in Users |-> IF u = "u1" THEN MaxIdsSeq ELSE 0])
InitForged == InitWith([u \in Users |-> IF u = "u1" THEN MaxIdsForged ELSE 0])
InitDup == InitWith([u \in Users |-> IF u = "u1" THEN MaxIdsDup ELSE 0])


-----------------------------------------------------------------------------
(* What an execution emits and how it is recorded *)

OutReply(m, payload) ==
    [kind |-> "reply", to |-> m.source, id |-> m.id, payload |-> payload]
OutSend(u, payload) ==
    [kind |-> "send", to |-> u, id |-> ZeroId, payload |-> payload]
OutRequest(rid, act) ==
    [kind |-> "request", to |-> "wordle", id |-> rid, payload |-> act]
OutDelayed(t) ==
    [kind |-> "delayed", to |-> Program, id |-> t.session_id, payload |-> t]
OutWake(id) ==
    [kind |-> "wake", to |-> Program, id |-> id, payload |-> "wake"]

\* op: the entry point or action arm; user: the player whose record it works on;
\* id: msg::id(), the reply's reply_to, or the timeout's session_id;
\* source: msg::source(); pre: that player's record before the execution
Last(op, u, id, src, woken, arg, outcome) ==
    [op |-> op, user |-> u, id |-> id, source |-> src, woken |-> woken,
     arg |-> arg, outcome |-> outcome, pre |-> sessions[u]]

\* A panic: the execution's changes are discarded and nothing it sent leaves
Panic(q) ==
    /\ queue' = q
    /\ out' = NoOut
    /\ UNCHANGED <<sessions, waitlist, wordle, delayed, nextId, gameNo, idCap, delivered>>

\* WordleAction::new_start_game, WordleAction::new_check_word
new_start_game(u) == [type |-> "StartGame", user |-> u]
new_check_word(u, w) == [type |-> "CheckWord", user |-> u, word |-> w]

\* Variant of Consume that looks at the win flag before the limit
Consume_WinFirst(s1, ev) ==
    IF has_guessed(ev)
    THEN [status |-> StatusGameOver("Win"), reply |-> game_over("Win")]
    ELSE IF s1.tries = TRIES_LIMIT
    THEN [status |-> StatusGameOver("Lose"), reply |-> game_over("Lose")]
    ELSE [status |-> StatusInProgress, reply |-> ToGameSessionEvent(ev)]

\* Variant of Consume that declares the loss one try early
Consume_LimitFour(s1, ev) ==
    IF s1.tries = TRIES_LIMIT - 1
    THEN [status |-> StatusGameOver("Lose"), reply |-> game_over("Lose")]
    ELSE IF has_guessed(ev)
    THEN [status |-> StatusGameOver("Win"), reply |-> game_over("Win")]
    ELSE [status |-> StatusInProgress, reply |-> ToGameSessionEvent(ev)]

\* handle(), CheckWord on a cached result ev: the status the session takes and
\* the event replied, from the record s1 whose tries are already incremented
Consume(s1, ev) ==
    IF s1.tries = TRIES_LIMIT
    THEN [status |-> StatusGameOver("Lose"), reply |-> game_over("Lose")]
    ELSE IF has_guessed(ev)
    THEN [status |-> StatusGameOver("Win"), reply |-> game_over("Win")]
    ELSE [status |-> StatusInProgress, reply |-> ToGameSessionEvent(ev)]

\* Variants of TimeoutApplies: only while waiting for a reply; without the
\* comparison of session ids; without the look at GameOver
TimeoutApplies_WaitingOnly(s, sid) ==
    sid = s.session_id /\ is_wait_reply_status(s)
TimeoutApplies_AnyId(s, sid) ==
    ~is_game_over(s)
TimeoutApplies_EvenOver(s, sid) ==
    sid = s.session_id

\* CheckGameStatus: the timeout applies to the record s
TimeoutApplies(s, sid) ==
    sid = s.session_id /\ ~is_game_over(s)

\* Variant of ReplyAccepted without the comparison of correlation ids
ReplyAccepted_AnyId(s, reply_to) ==
    is_wait_reply_status(s)

\* handle_reply: the reply is accepted for the record s
ReplyAccepted(s, reply_to) ==
    reply_to = s.send_to_wordle_msg_id /\ is_wait_reply_status(s)

-----------------------------------------------------------------------------
(* handle(): GameSessionAction::StartGame                                   *)
(* m is the message, woken says whether this is a re-execution after wake,  *)
(* q is the queue once m has been taken                                     *)

StartGame(m, woken, q) ==
    LET u == m.source
        s == get_or_create_session(u)
        rid == FreshId(u, IF woken THEN 1 ELSE 2)
    IN
    IF has_reply(s) THEN
        /\ out' = {OutReply(m, ToGameSessionEvent(s.session_status.event))}
        /\ sessions' = [sessions EXCEPT
                          ![u] = [s EXCEPT !.session_status = StatusInProgress]]
        /\ queue' = q
        /\ last' = Last("StartGame", u, m.id, u, woken, "none", "reply")
        /\ UNCHANGED <<waitlist, wordle, delayed, nextId, gameNo, idCap, delivered>>
    ELSE IF can_start_new_game(s) THEN
        /\ wordle' = wordle \cup {[id |-> rid, action |-> new_start_game(u), by |-> m.id]}
        /\ sessions' = [sessions EXCEPT ![u] =
              [update_message_ids([s EXCEPT !.session_id = m.id], m.id, rid)
                  EXCEPT !.tries = 0, !.session_status = StatusInProgress]]
        /\ delayed' = Append(delayed, QTimeout(u, m.id, gameNo[u] + 1))
        /\ waitlist' = waitlist \cup {m}
        /\ nextId' = [nextId EXCEPT ![u] = @ + (IF woken THEN 1 ELSE 2)]
        /\ gameNo' = [gameNo EXCEPT ![u] = @ + 1]
        /\ queue' = q
        /\ out' = {OutRequest(rid, new_start_game(u)),
                   OutDelayed(QTimeout(u, m.id, gameNo[u] + 1))}
        /\ last' = Last("StartGame", u, m.id, u, woken, "none", "wait")
        /\ UNCHANGED <<idCap, delivered>>
    ELSE
        /\ Panic(q)
        /\ last' = Last("StartGame", u, m.id, u, woken, "none", "panic")

(* handle(): GameSessionAction::CheckWord(word) *)

CheckWord(m, woken, q) ==
    LET u == m.source
        word == m.action.word
        s == get_or_create_session(u)
        rid == FreshId(u, IF woken THEN 1 ELSE 2)
    IN
    IF has_reply(s) THEN
        LET ev == s.session_status.event
            s1 == increment_tries(s)
        IN
        /\ sessions' = [sessions EXCEPT
              ![u] = [s1 EXCEPT !.session_status = Consume(s1, ev).status]]
        /\ out' = {OutReply(m, Consume(s1, ev).reply)}
        /\ queue' = q
        /\ last' = Last("CheckWord", u, m.id, u, woken, word, "reply")
        /\ UNCHANGED <<waitlist, wordle, delayed, nextId, gameNo, idCap, delivered>>
    ELSE IF is_wait_reply_status(s) /\ validate_word(word) THEN
        /\ wordle' = wordle \cup
              {[id |-> rid, action |-> new_check_word(u, word), by |-> m.id]}
        /\ sessions' = [sessions EXCEPT ![u] = update_message_ids(s, m.id, rid)]
        /\ waitlist' = waitlist \cup {m}
        /\ nextId' = [nextId EXCEPT ![u] = @ + (IF woken THEN 1 ELSE 2)]
        /\ queue' = q
        /\ out' = {OutRequest(rid, new_check_word(u, word))}
        /\ last' = Last("CheckWord", u, m.id, u, woken, word, "wait")
        /\ UNCHANGED <<delayed, gameNo, idCap, delivered>>
    ELSE
        \* "Invalid word" in InProgress, "The user is not in the game" otherwise
        /\ Panic(q)
        /\ last' = Last("CheckWord", u, m.id, u, woken, word, "panic")

(* handle(): GameSessionAction::CheckGameStatus { user, session_id } *)

\* Variant of SentByProgram that trusts every sender
SentByProgram_Anyone(source) == TRUE

\* msg::source() == exec::program_id()
SentByProgram(source) == source = Program

CheckGameStatus(source, t, q) ==
    LET user == t.user
        session_id == t.session_id
    IN
    IF /\ SentByProgram(source)
       /\ sessions[user] # NoSession
       /\ TimeoutApplies(sessions[user], session_id)
    THEN
        /\ sessions' = [sessions EXCEPT
              ![user].session_status = StatusGameOver("Lose")]
        /\ out' = {OutSend(user, game_over("Lose"))}
        /\ queue' = q
        /\ last' = Last("CheckGameStatus", user, session_id, source, FALSE, t, "fired")
        /\ UNCHANGED <<waitlist, wordle, delayed, nextId, gameNo, idCap, delivered>>
    ELSE
        /\ queue' = q
        /\ out' = NoOut
        /\ last' = Last("CheckGameStatus", user, session_id, source, FALSE, t, "ignored")
        /\ UNCHANGED <<sessions, waitlist, wordle, delayed, nextId, gameNo, idCap, delivered>>

(* handle_reply() *)

\* exec::wake(id): a parked message goes to the back of the queue
Woken(q, id) ==
    IF \E m \in waitlist : m.id = id
    THEN Append(q, QWake(CHOOSE m \in waitlist : m.id = id))
    ELSE q

handle_reply(reply_to, wordle_event, q) ==
    LET user == get_user(wordle_event) IN
    IF /\ sessions[user] # NoSession
       /\ ReplyAccepted(sessions[user], reply_to)
    THEN
        /\ sessions' = [sessions EXCEPT
              ![user].session_status = StatusReplyReceived(wordle_event)]
        /\ queue' = Woken(q, sessions[user].original_msg_id)
        /\ waitlist' = { m \in waitlist : m.id # sessions[user].original_msg_id }
        /\ out' = {OutWake(sessions[user].original_msg_id)}
        /\ last' = Last("handle_reply", user, reply_to, "wordle", FALSE, wordle_event, "accepted")
        /\ UNCHANGED <<wordle, delayed, nextId, gameNo, idCap, delivered>>
    ELSE
        /\ queue' = q
        /\ out' = NoOut
        /\ last' = Last("handle_reply", user, reply_to, "wordle", FALSE, wordle_event, "ignored")
        /\ UNCHANGED <<sessions, waitlist, wordle, delayed, nextId, gameNo, idCap, delivered>>

-----------------------------------------------------------------------------
(* Steps of the system *)

\* ids are left for an execution that hands out `need` of them
Budget(u, need) == nextId[u] + Reserve(u) + need <= idCap[u]

\* a new message of this kind would send a request and suspend
Suspends(u, act) ==
    LET s == get_or_create_session(u) IN
    /\ ~has_reply(s)
    /\ IF act.type = "StartGame"
       THEN can_start_new_game(s)
       ELSE is_wait_reply_status(s) /\ validate_word(act.word)

\* the player takes part in the run, and ids are left if the message needs them
MaySend(u, act) ==
    /\ idCap[u] > 0
    /\ Suspends(u, act) => Budget(u, 2)

\* A player sends StartGame and it is executed
PlayerStartGame(u) ==
    /\ MaySend(u, ActStartGame)
    /\ StartGame(Msg(FreshId(u, 1), u, ActStartGame), FALSE, queue)

\* A player sends CheckWord(w) and it is executed
PlayerCheckWord(u, w) ==
    /\ MaySend(u, ActCheckWord(w))
    /\ CheckWord(Msg(FreshId(u, 1), u, ActCheckWord(w)), FALSE, queue)

\* A woken StartGame is executed again
ResumeStartGame ==
    /\ queue # <<>>
    /\ Head(queue).type = "wake"
    /\ Head(queue).msg.action.type = "StartGame"
    /\ StartGame(Head(queue).msg, TRUE, Tail(queue))

\* A woken CheckWord is executed again
ResumeCheckWord ==
    /\ queue # <<>>
    /\ Head(queue).type = "wake"
    /\ Head(queue).msg.action.type = "CheckWord"
    /\ CheckWord(Head(queue).msg, TRUE, Tail(queue))

\* A due timeout check is executed
TimeoutCheck ==
    /\ queue # <<>>
    /\ Head(queue).type = "timeout"
    /\ CheckGameStatus(Program, Head(queue), Tail(queue))

\* A reply of the evaluation program is executed by handle_reply
ReplyArrives ==
    /\ queue # <<>>
    /\ Head(queue).type = "reply"
    /\ handle_reply(Head(queue).reply_to, Head(queue).event, Tail(queue))

\* The delay of the oldest scheduled timeout check elapses
TimeoutElapses ==
    /\ delayed # <<>>
    /\ queue' = Append(queue, Head(delayed))
    /\ delayed' = Tail(delayed)
    /\ out' = NoOut
    /\ last' = EnvStep("TimeoutElapses")
    /\ UNCHANGED <<sessions, waitlist, wordle, nextId, gameNo, idCap, delivered>>

\* the events the evaluation program may answer a request with
Answers(req) ==
    IF req.action.type = "StartGame"
    THEN {GameStarted(req.action.user)}
    ELSE {WordChecked(req.action.user, r) : r \in CheckResults}

\* the same events, naming any player
AnswersNaming(req, v) ==
    IF req.action.type = "StartGame"
    THEN {GameStarted(v)}
    ELSE {WordChecked(v, r) : r \in CheckResults}

Answered(req, ev) ==
    /\ Budget(ev.user, 1)
    /\ wordle' = wordle \ {req}
    /\ queue' = Append(queue, QReply(req.id, ev, req.by, FALSE))
    /\ out' = NoOut
    /\ last' = EnvStep("WordleReplies")
    /\ UNCHANGED <<sessions, waitlist, delayed, nextId, gameNo, idCap, delivered>>

\* The evaluation program answers one of the requests it holds
WordleReplies ==
    \E req \in wordle : \E ev \in Answers(req) : Answered(req, ev)

\* The evaluation program answers a request with an event naming another player
WordleMisaddresses ==
    \E req \in wordle : \E v \in Users \ {req.action.user} :
        \E ev \in AnswersNaming(req, v) : Answered(req, ev)

\* session ids a forged timeout check about player v may carry: the id of the
\* player's first message, and the current session_id of the player's record
ForgedSessionIds(v) ==
    {<<v, 1>>} \cup
        (IF sessions[v] = NoSession THEN {} ELSE {sessions[v].session_id})

\* A player u sends CheckGameStatus { user: v, session_id: sid } and it is
\* executed
PlayerCheckGameStatus(u, v, sid) ==
    CheckGameStatus(u, QTimeout(v, sid, gameNo[v]), queue)

\* The evaluation program answers a request, and the transport keeps the
\* reply for a second delivery
AnsweredOnRecord(req, ev) ==
    /\ Budget(ev.user, 1)
    /\ wordle' = wordle \ {req}
    /\ queue' = Append(queue, QReply(req.id, ev, req.by, FALSE))
    /\ delivered' = delivered \cup {QReply(req.id, ev, req.by, TRUE)}
    /\ out' = NoOut
    /\ last' = EnvStep("WordleReplies")
    /\ UNCHANGED <<sessions, waitlist, delayed, nextId, gameNo, idCap>>

WordleRepliesOnRecord ==
    \E req \in wordle : \E ev \in Answers(req) : AnsweredOnRecord(req, ev)

\* The transport delivers a reply a second time: same correlation id, same
\* event
Redelivers ==
    \E r \in delivered :
        /\ Budget(r.event.user, 1)
        /\ queue' = Append(queue, r)
        /\ delivered' = delivered \ {r}
        /\ out' = NoOut
        /\ last' = EnvStep("Redelivers")
        /\ UNCHANGED <<sessions, waitlist, wordle, delayed, nextId, gameNo, idCap>>

\* The program executes the message at the head of its queue
Execute ==
    \/ ResumeStartGame
    \/ ResumeCheckWord
    \/ TimeoutCheck
    \/ ReplyArrives

Next ==
    \/ \E u \in Users : PlayerStartGame(u)
    \/ \E u \in Users : \E w \in Words : PlayerCheckWord(u, w)
    \/ ResumeStartGame
    \/ ResumeCheckWord
    \/ TimeoutCheck
    \/ ReplyArrives
    \/ TimeoutElapses
    \/ WordleReplies

\* nothing of player u is under way: no request unanswered, no reply to be
\* executed, no woken message to be executed again
Idle(u) ==
    /\ \A r \in wordle : r.action.user # u
    /\ Reserve(u) = 0

\* The player sends StartGame once their previous message is through
StartGameInTurn ==
    \E u \in Users : Idle(u) /\ PlayerStartGame(u)

\* The player sends CheckWord(w) once their previous message is through
CheckWordInTurn ==
    \E u \in Users : \E w \in Words : Idle(u) /\ PlayerCheckWord(u, w)

NextSeq ==
    \/ StartGameInTurn
    \/ CheckWordInTurn
    \/ ResumeStartGame
    \/ ResumeCheckWord
    \/ TimeoutCheck
    \/ ReplyArrives
    \/ TimeoutElapses
    \/ WordleReplies

\* the guesses of the two-player specification: one valid, one malformed
WordsTwo == {W_horse, W_symbol}

NextTwo ==
    \/ \E u \in Users : PlayerStartGame(u)
    \/ \E u \in Users : \E w \in WordsTwo : PlayerCheckWord(u, w)
    \/ ResumeStartGame
    \/ ResumeCheckWord
    \/ TimeoutCheck
    \/ ReplyArrives
    \/ TimeoutElapses
    \/ WordleReplies
    \/ WordleMisaddresses

\* as Next, and any player may send a timeout check about any player
NextForged ==
    \/ \E u \in Users : PlayerStartGame(u)
    \/ \E u \in Users : \E w \in Words : PlayerCheckWord(u, w)
    \/ \E u \in Users : \E v \in Users : \E sid \in ForgedSessionIds(v) :
          PlayerCheckGameStatus(u, v, sid)
    \/ ResumeStartGame
    \/ ResumeCheckWord
    \/ TimeoutCheck
    \/ ReplyArrives
    \/ TimeoutElapses
    \/ WordleReplies

\* as Next, and a reply may be delivered a second time
NextDup ==
    \/ \E u \in Users : PlayerStartGame(u)
    \/ \E u \in Users : \E w \in WordsTwo : PlayerCheckWord(u, w)
    \/ ResumeStartGame
    \/ ResumeCheckWord
    \/ TimeoutCheck
    \/ ReplyArrives
    \/ TimeoutElapses
    \/ WordleRepliesOnRecord
    \/ Redelivers

\* One player, every interleaving
Spec == Init /\ [][Next]_vars

\* One player, and timeout checks sent by players
SpecForged == InitForged /\ [][NextForged]_vars

\* One player, and replies that are delivered twice
SpecDup == InitDup /\ [][NextDup]_vars

\* Two players, and an evaluation program that may name the wrong player
SpecTwo == InitTwo /\ [][NextTwo]_vars

\* One player who sends a message only when the previous one is through
SpecSeq == InitSeq /\ [][NextSeq]_vars

\* The program executes what is in its queue, and scheduled timeout checks
\* become due; players and the evaluation program need not do anything
SpecLive ==
    /\ InitLive
    /\ [][Next]_vars
    /\ WF_vars(Execute)
    /\ WF_vars(TimeoutElapses)

TypeOK ==
    /\ \A u \in Users : nextId[u] + Reserve(u) <= idCap[u]
    /\ \A u \in Users : sessions[u] # NoSession => sessions[u].tries \in 0..255

-----------------------------------------------------------------------------
(* Properties *)

\* the status kind of a record, "Absent" when the player has no record
Kind(s) == IF s = NoSession THEN "Absent" ELSE s.session_status.kind

\* requests of player u the evaluation program holds unanswered
Unanswered(u) == { r \in wordle : r.action.user = u }

\* the result reports each of the five positions correct
AllFiveCorrect(ev) ==
    /\ ev.t = "WordChecked"
    /\ { ev.correct_positions[i] : i \in 1..Len(ev.correct_positions) } = 0..4

\* the last execution was a CheckWord that consumed a cached result
ConsumedByCheckWord ==
    /\ last.op = "CheckWord"
    /\ last.outcome = "reply"
    /\ Kind(last.pre) = "ReplyReceived"

\* C1: at any time the evaluation program holds at most one unanswered request
\* of each player (no handler sends a second request while one is pending).
C1_OneOutstanding ==
    \A u \in Users : Cardinality(Unanswered(u)) <= 1

\* C2: under SpecLive (the queue is executed, scheduled timeout checks become
\* due, the evaluation program may stay silent) every started game, InProgress
\* or ReplyReceived, eventually is GameOver.
C2_EveryGameEnds ==
    \A u \in Users :
        (Kind(sessions[u]) \in {"InProgress", "ReplyReceived"})
            ~> (Kind(sessions[u]) = "GameOver")

\* C2 witness: a timeout check ended a game whose request is still unanswered
C2_TimeoutEndsStalledGame ==
    /\ last.op = "CheckGameStatus"
    /\ last.outcome = "fired"
    /\ sessions[last.user].session_status = StatusGameOver("Lose")
    /\ \E r \in Unanswered(last.user) :
          r.id = sessions[last.user].send_to_wordle_msg_id

\* C3: a timeout check that carries a session_id other than the record's current
\* one leaves the record as it was and sends nothing, and a timeout check that
\* does end a game was scheduled by that very game, never by an earlier one.
C3_StaleTimeoutHarmless ==
    last.op = "CheckGameStatus" =>
        /\ (last.pre # NoSession /\ last.id # last.pre.session_id) =>
              /\ sessions[last.user] = last.pre
              /\ out = NoOut
        /\ last.outcome = "fired" => last.arg.game = gameNo[last.user]

\* C3 witness: the timeout check of a finished game came due while a later game
\* of the player was in progress, and was ignored
C3_StaleTimeoutIgnored ==
    /\ last.op = "CheckGameStatus"
    /\ Kind(last.pre) = "InProgress"
    /\ last.id # last.pre.session_id
    /\ last.arg.game < gameNo[last.user]
    /\ sessions[last.user] = last.pre

\* C4: tries never exceeds the limit, and a CheckWord whose consumption brings
\* tries to the limit leaves GameOver(Lose) and answers GameOver(Lose), whatever
\* the cached result is.
C4_TriesBounded ==
    /\ \A u \in Users : sessions[u] # NoSession => sessions[u].tries <= TRIES_LIMIT
    /\ (ConsumedByCheckWord /\ sessions[last.user].tries = TRIES_LIMIT) =>
          /\ sessions[last.user].session_status = StatusGameOver("Lose")
          /\ out = {[kind |-> "reply", to |-> last.user, id |-> last.id,
                     payload |-> game_over("Lose")]}

\* C4 witness: the fifth try consumed a result reporting all five correct
C4_FifthTryLoses ==
    /\ ConsumedByCheckWord
    /\ sessions[last.user].tries = TRIES_LIMIT
    /\ AllFiveCorrect(last.pre.session_status.event)
    /\ sessions[last.user].session_status = StatusGameOver("Lose")

\* C5: a CheckWord that consumes an all-five-correct result when tries is 4
\* leaves GameOver(Win) and answers GameOver(Win).
C5_WinOnFinalTry ==
    (/\ ConsumedByCheckWord
     /\ last.pre.tries = TRIES_LIMIT - 1
     /\ AllFiveCorrect(last.pre.session_status.event)) =>
        /\ sessions[last.user].session_status = StatusGameOver("Win")
        /\ out = {[kind |-> "reply", to |-> last.user, id |-> last.id,
                   payload |-> game_over("Win")]}

\* C6: a StartGame executed on a record that is InProgress, or ReplyReceived
\* with the result of a guess, fails, leaves the record as it was, and sends
\* and schedules nothing.
C6_StartRejected ==
    (/\ last.op = "StartGame"
     /\ \/ Kind(last.pre) = "InProgress"
        \/ /\ Kind(last.pre) = "ReplyReceived"
           /\ last.pre.session_status.event.t = "WordChecked") =>
        /\ last.outcome = "panic"
        /\ sessions[last.user] = last.pre
        /\ out = NoOut

\* C7: a CheckWord whose guess does not pass validation, executed on a record
\* of a started game (InProgress or ReplyReceived), fails and leaves the record
\* as it was.
C7_MalformedRejected ==
    (/\ last.op = "CheckWord"
     /\ ~validate_word(last.arg)
     /\ Kind(last.pre) \in {"InProgress", "ReplyReceived"}) =>
        /\ last.outcome = "panic"
        /\ sessions[last.user] = last.pre

\* C8: handle_reply changes no record and wakes nobody when the named player
\* has no record, the correlation id differs from the record's
\* send_to_wordle_msg_id, or the record is not InProgress; and it never changes
\* the record of a player other than the one the reply names.
C8_ReplyFrame ==
    [][ last'.op = "handle_reply" =>
          LET u == last'.user
              s == sessions[u]
          IN
          /\ \A v \in Users \ {u} : sessions'[v] = sessions[v]
          /\ (\/ s = NoSession
              \/ last'.id # s.send_to_wordle_msg_id
              \/ Kind(s) # "InProgress") =>
                /\ sessions' = sessions
                /\ waitlist' = waitlist
                /\ queue' = Tail(queue)
                /\ out' = NoOut ]_vars

\* C8 witness: a reply with a stale correlation id reached a record that is
\* InProgress while the other player has a game of their own, and was ignored
C8_StaleReplyIgnored ==
    /\ last.op = "handle_reply"
    /\ last.outcome = "ignored"
    /\ Kind(last.pre) = "InProgress"
    /\ last.id # last.pre.send_to_wordle_msg_id
    /\ \E v \in Users \ {last.user} :
          Kind(sessions[v]) \in {"InProgress", "ReplyReceived"}

\* C9: a StartGame executed on an absent, Init or GameOver record sets tries to
\* 0 and the status to InProgress, sends one fresh StartGame request and records
\* its id; and the StartGame resumed after the reply to its request is answered
\* StartSuccess.
C9_StartAnswered ==
    /\ (last.op = "StartGame" /\ Kind(last.pre) \in {"Absent", "Init", "GameOver"}) =>
          /\ sessions[last.user].tries = 0
          /\ sessions[last.user].session_status = StatusInProgress
          /\ \E r \in out :
                /\ r = OutRequest(sessions[last.user].send_to_wordle_msg_id,
                                  new_start_game(last.user))
                /\ { x \in out : x.kind = "request" } = {r}
                /\ last.pre # NoSession => r.id # last.pre.send_to_wordle_msg_id
    /\ (last.op = "StartGame" /\ last.woken) =>
          out = {[kind |-> "reply", to |-> last.user, id |-> last.id,
                  payload |-> [t |-> "StartSuccess"]]}

\* C10: a timeout check sent by the program itself that carries the record's
\* current session_id turns a record that is not GameOver into GameOver(Lose)
\* and sends the player exactly one GameOver(Lose) as a new message; on a
\* GameOver record it changes and sends nothing.
C10_TimeoutForcesLose ==
    (/\ last.op = "CheckGameStatus"
     /\ last.source = Program
     /\ last.pre # NoSession
     /\ last.id = last.pre.session_id) =>
        IF Kind(last.pre) # "GameOver"
        THEN /\ sessions[last.user] =
                  [last.pre EXCEPT !.session_status = StatusGameOver("Lose")]
             /\ out = {[kind |-> "send", to |-> last.user, id |-> ZeroId,
                        payload |-> game_over("Lose")]}
        ELSE /\ sessions[last.user] = last.pre
             /\ out = NoOut

\* C10 witness: the timeout check ended a game whose cached reply was waiting
\* for the resumed caller
C10_TimeoutOnCachedReply ==
    /\ last.op = "CheckGameStatus"
    /\ last.outcome = "fired"
    /\ Kind(last.pre) = "ReplyReceived"
    /\ sessions[last.user].session_status = StatusGameOver("Lose")

\* C11: when a player sends one message at a time (SpecSeq), a resumed CheckWord
\* finds either the reply to its own request cached or, a timeout check having
\* come in between, GameOver; and a resumed CheckWord with a valid guess that
\* consumes the reply to its own request, reporting all five positions correct,
\* with tries below 4 before it, leaves GameOver(Win) and answers GameOver(Win).
C11_WinBeforeLastTry ==
    /\ (last.op = "CheckWord" /\ last.woken) =>
          /\ Kind(last.pre) \in {"ReplyReceived", "GameOver"}
          /\ Kind(last.pre) = "ReplyReceived" =>
                /\ last.id = last.pre.original_msg_id
                /\ last.pre.session_status.event.t = "WordChecked"
    /\ (/\ ConsumedByCheckWord
        /\ last.woken
        /\ validate_word(last.arg)
        /\ AllFiveCorrect(last.pre.session_status.event)
        /\ last.pre.tries < TRIES_LIMIT - 1) =>
          /\ sessions[last.user] =
                [last.pre EXCEPT !.tries = @ + 1,
                                 !.session_status = StatusGameOver("Win")]
          /\ out = {[kind |-> "reply", to |-> last.user, id |-> last.id,
                     payload |-> game_over("Win")]}

\* C11 witness: the fourth guess of a game, resumed on the reply to its own
\* request, won the game
C11_FourthGuessWins ==
    /\ ConsumedByCheckWord
    /\ last.woken
    /\ last.id = last.pre.original_msg_id
    /\ last.arg = W_horse
    /\ AllFiveCorrect(last.pre.session_status.event)
    /\ last.pre.tries = TRIES_LIMIT - 2
    /\ sessions[last.user].session_status = StatusGameOver("Win")

\* C12: the execution of a CheckGameStatus whose sender is not the program
\* itself changes no record, sends, schedules and wakes nothing, whatever
\* player and session_id the message carries.
C12_ForgedTimeoutInert ==
    [][ (last'.op = "CheckGameStatus" /\ last'.source # Program) =>
          /\ sessions' = sessions
          /\ out' = NoOut
          /\ wordle' = wordle
          /\ delayed' = delayed
          /\ waitlist' = waitlist
          /\ queue' = queue ]_vars

\* C12 witness: another player sent a timeout check carrying the current
\* session_id of a game in progress, and the record is as it was
C12_ForgedCurrentId ==
    /\ last.op = "CheckGameStatus"
    /\ last.source \in Users \ {last.user}
    /\ Kind(last.pre) = "InProgress"
    /\ last.id = last.pre.session_id
    /\ \E r \in Unanswered(last.user) : r.id = last.pre.send_to_wordle_msg_id
    /\ sessions[last.user] = last.pre

\* C13: the execution of a CheckWord, new or resumed, on a record that is
\* absent, Init or GameOver fails: no request is sent, nothing is emitted, no
\* message is parked, and the session store is as it was (no record created,
\* tries and status unchanged).
C13_CheckWordNotInGame ==
    [][ (/\ last'.op = "CheckWord"
         /\ Kind(sessions[last'.user]) \in {"Absent", "Init", "GameOver"}) =>
          /\ last'.outcome = "panic"
          /\ sessions' = sessions
          /\ wordle' = wordle
          /\ waitlist' = waitlist
          /\ delayed' = delayed
          /\ out' = NoOut ]_vars

\* C13 witness: a valid guess was submitted to a finished game that had counted
\* tries, and failed
C13_GuessAfterGameOver ==
    /\ last.op = "CheckWord"
    /\ last.outcome = "panic"
    /\ validate_word(last.arg)
    /\ Kind(last.pre) = "GameOver"
    /\ last.pre.tries > 0
    /\ sessions[last.user] = last.pre

\* C14: an execution for a player whose record is ReplyReceived that is accepted
\* (changes the record or emits something) is the resumed execution of the
\* message the record names as the suspended caller; no new StartGame or
\* CheckWord and no timeout check is accepted on a ReplyReceived record.
C14_OnlyCallerConsumes ==
    (/\ last.op \in {"StartGame", "CheckWord", "CheckGameStatus"}
     /\ Kind(last.pre) = "ReplyReceived"
     /\ (sessions[last.user] # last.pre \/ out # NoOut)) =>
        /\ last.woken
        /\ last.id = last.pre.original_msg_id

\* C15: an execution on a GameOver record leaves it GameOver and sends no
\* request, unless it is the execution of a StartGame newly sent by the player
\* (not a resumed one); replies and timeout checks in particular leave it
\* GameOver.
C15_GameOverUntilNewStart ==
    (/\ last.pre # NoSession
     /\ Kind(last.pre) = "GameOver"
     /\ ~(last.op = "StartGame" /\ ~last.woken)) =>
        /\ Kind(sessions[last.user]) = "GameOver"
        /\ \A x \in out : x.kind # "request"

\* C16: when handle_reply executes the reply to the request of a message that
\* is parked (suspended after sending that request), it wakes that message:
\* the message is put in the queue to be executed again. (A reply that is
\* ignored leaves the message parked, and no later reply names it.)
C16_ReplyResumesCaller ==
    [][ (/\ last'.op = "handle_reply"
         /\ \E m \in waitlist : m.id = Head(queue).by) =>
          /\ OutWake(Head(queue).by) \in out'
          /\ \E i \in 1..Len(queue') :
                /\ queue'[i].type = "wake"
                /\ queue'[i].msg.id = Head(queue).by ]_vars

\* C17: the second delivery of a reply whose correlation id is the record's
\* send_to_wordle_msg_id, executed when the record is InProgress or GameOver
\* (the first delivery was accepted and its cached reply consumed), leaves every
\* record as it was and wakes nobody.
C17_DuplicateIgnored ==
    [][ (/\ last'.op = "handle_reply"
         /\ Head(queue).copy
         /\ sessions[last'.user] # NoSession
         /\ Head(queue).reply_to = sessions[last'.user].send_to_wordle_msg_id
         /\ Kind(sessions[last'.user]) \in {"InProgress", "GameOver"}) =>
          /\ sessions' = sessions
          /\ queue' = Tail(queue)
          /\ out' = NoOut ]_vars

\* tries of a record, 0 when the player has no record
Tries(s) == IF s = NoSession THEN 0 ELSE s.tries

\* C18: in every step and for every player, an execution that starts a new game
\* leaves tries 0; an execution that consumes the cached result of a guess (a
\* WordChecked event) and answers its caller leaves tries one higher; and tries
\* changes in no other step.
C18_TriesChanges ==
    [][ \A u \in Users :
          LET NewGame == /\ last'.user = u
                         /\ last'.op = "StartGame"
                         /\ last'.outcome = "wait"
              GuessConsumed == /\ last'.user = u
                               /\ last'.op \in {"StartGame", "CheckWord"}
                               /\ last'.outcome = "reply"
                               /\ Kind(sessions[u]) = "ReplyReceived"
                               /\ sessions[u].session_status.event.t = "WordChecked"
          IN
          /\ NewGame => Tries(sessions'[u]) = 0
          /\ GuessConsumed => Tries(sessions'[u]) = Tries(sessions[u]) + 1
          /\ Tries(sessions'[u]) # Tries(sessions[u]) => NewGame \/ GuessConsumed
      ]_vars

\* a guess of the required shape: exactly five characters, all lowercase
WellFormedGuess(w) ==
    /\ Len(w) = 5
    /\ \A i \in 1..Len(w) : is_lowercase(w[i])

\* C19: every CheckWord request the evaluation program holds, and every one an
\* execution (new or resumed) has just sent, carries a guess of the required
\* shape.
C19_NoMalformedRequest ==
    /\ \A r \in wordle :
          r.action.type = "CheckWord" => WellFormedGuess(r.action.word)
    /\ \A x \in out :
          (x.kind = "request" /\ x.payload.type = "CheckWord") =>
              WellFormedGuess(x.payload.word)

\* every CheckWord request sent carries a guess that validate_word accepts
SentGuessesPassValidation ==
    /\ \A r \in wordle :
          r.action.type = "CheckWord" => validate_word(r.action.word)
    /\ \A x \in out :
          (x.kind = "request" /\ x.payload.type = "CheckWord") =>
              validate_word(x.payload.word)

\* C20: the execution of a StartGame, new or resumed, on a ReplyReceived record
\* answers its caller with the cached event (as a GameSessionEvent), sets the
\* status to InProgress and changes nothing else: tries, session_id,
\* original_msg_id and send_to_wordle_msg_id stay, the other records stay, no
\* request is sent, no timeout check is scheduled, no message is parked.
C20_StartOnCachedReply ==
    [][ (/\ last'.op = "StartGame"
         /\ Kind(sessions[last'.user]) = "ReplyReceived") =>
          LET u == last'.user
              ev == sessions[u].session_status.event
          IN
          /\ sessions' = [sessions EXCEPT ![u].session_status = StatusInProgress]
          /\ out' = {[kind |-> "reply", to |-> u, id |-> last'.id,
                      payload |-> ToGameSessionEvent(ev)]}
          /\ wordle' = wordle
          /\ delayed' = delayed
          /\ waitlist' = waitlist ]_vars

\* C20 witness: a new StartGame took the cached result of a guess, sent after
\* an earlier guess had been counted, and was answered with it
C20_StartTakesGuessResult ==
    /\ last.op = "StartGame"
    /\ ~last.woken
    /\ Kind(last.pre) = "ReplyReceived"
    /\ last.pre.session_status.event.t = "WordChecked"
    /\ last.pre.tries > 0
    /\ sessions[last.user] =
          [last.pre EXCEPT !.session_status = StatusInProgress]
    /\ \E x \in out : x.kind = "reply" /\ x.payload.t = "CheckWordResult"

\* C21: when a player sends one message at a time (SpecSeq), a valid guess
\* submitted to a game in progress is forwarded and suspends without failure,
\* and the resumed CheckWord that consumes a result not reporting all five
\* positions correct (no timeout check having ended the game) counts one try:
\* while tries was below 4 it answers the positional result and leaves the
\* record InProgress; with tries 4 it leaves GameOver(Lose) and answers
\* GameOver(Lose). A CheckWord ends a game as lost only when tries reaches 5,
\* and as won only on a result reporting all five positions correct.
C21_LoseExactlyOnFifth ==
    /\ (/\ last.op = "CheckWord"
        /\ ~last.woken
        /\ validate_word(last.arg)
        /\ Kind(last.pre) = "InProgress") =>
          /\ last.outcome = "wait"
          /\ sessions[last.user].tries = last.pre.tries
          /\ Kind(sessions[last.user]) = "InProgress"
          /\ \E x \in out : /\ x.kind = "request"
                             /\ x.payload = new_check_word(last.user, last.arg)
    /\ (/\ ConsumedByCheckWord
        /\ last.woken
        /\ validate_word(last.arg)
        /\ last.pre.session_status.event.t = "WordChecked"
        /\ ~AllFiveCorrect(last.pre.session_status.event)) =>
          LET ev == last.pre.session_status.event IN
          IF last.pre.tries < TRIES_LIMIT - 1
          THEN /\ sessions[last.user] =
                    [last.pre EXCEPT !.tries = @ + 1,
                                     !.session_status = StatusInProgress]
               /\ \E x \in out :
                     /\ out = {x}
                     /\ x.kind = "reply" /\ x.to = last.user /\ x.id = last.id
                     /\ x.payload.t = "CheckWordResult"
                     /\ x.payload.correct_positions = ev.correct_positions
                     /\ x.payload.contained_in_word = ev.contained_in_word
          ELSE /\ last.pre.tries = TRIES_LIMIT - 1
               /\ sessions[last.user] =
                    [last.pre EXCEPT !.tries = TRIES_LIMIT,
                                     !.session_status = StatusGameOver("Lose")]
               /\ out = {[kind |-> "reply", to |-> last.user, id |-> last.id,
                          payload |-> game_over("Lose")]}
    /\ (/\ last.op = "CheckWord"
        /\ Kind(last.pre) # "GameOver"
        /\ Kind(sessions[last.user]) = "GameOver") =>
          /\ sessions[last.user].session_status.result = "Lose" =>
                sessions[last.user].tries = TRIES_LIMIT
          /\ sessions[last.user].session_status.result = "Win" =>
                AllFiveCorrect(last.pre.session_status.event)

\* C21 witness: the fifth valid guess of a game, like the four before it not
\* matching, was resumed on its result and lost the game
C21_FifthMissLoses ==
    /\ ConsumedByCheckWord
    /\ last.woken
    /\ last.id = last.pre.original_msg_id
    /\ last.arg = W_horse
    /\ last.pre.session_status.event.t = "WordChecked"
    /\ ~AllFiveCorrect(last.pre.session_status.event)
    /\ last.pre.tries = TRIES_LIMIT - 1
    /\ sessions[last.user].tries = TRIES_LIMIT
    /\ sessions[last.user].session_status = StatusGameOver("Lose")

====
